---- MODULE Spec2Model ----
(***************************************************************************)
(* Model of map.py: the consensus parser (relay_pattern,                   *)
(* get_details_from_consensus), the clusterer (cluster_coordinates, i.e.   *)
(* DBSCAN with min_samples=1 plus the per-cluster aggregation) and the     *)
(* pipeline of main (parse, open reader, geocode loop, cluster, render,    *)
(* save).                                                                  *)
(*                                                                         *)
(* Abstractions.  A document is a sequence of lines; a line is a record    *)
(* [tok, blk, text]: tok is the token the line starts with, blk tags the   *)
(* content of the line with the block that wrote it, text is the character *)
(* sequence that follows "Bandwidth=" on a w line.  Coordinates are        *)
(* integers on a grid and eps is given in half grid units (eps = 1.5 is    *)
(* EpsHalf = 3), so that "distance <= eps" is 4*d^2 <= EpsHalf^2.  A mean  *)
(* is kept exact as <<sum of x, sum of y, number of members>>.             *)
(***************************************************************************)
EXTENDS Integers, Sequences, FiniteSets, TLC

VARIABLES doc, relays, pc, eps, weight, points, ret, ret2,
          reader, opens, idx, diag, geo, err, clusters, vmax, vmin, saved

vars == <<doc, relays, pc, eps, weight, points, ret, ret2,
          reader, opens, idx, diag, geo, err, clusters, vmax, vmin, saved>>

\* ------------------------------------------------------------------ bounds
MaxBlocks == 3
MaxBw == 12
MaxRelays == 3
MaxPoints == 3
GridX == 2

\* ------------------------------------------------------- small helpers
RECURSIVE SumSeq(_)
SumSeq(s) == IF s = <<>> THEN 0 ELSE Head(s) + SumSeq(Tail(s))

RECURSIVE MaxSeq(_)
MaxSeq(s) == IF Len(s) = 1 THEN s[1]
             ELSE LET m == MaxSeq(Tail(s)) IN IF s[1] >= m THEN s[1] ELSE m

RECURSIVE MinSeq(_)
MinSeq(s) == IF Len(s) = 1 THEN s[1]
             ELSE LET m == MinSeq(Tail(s)) IN IF s[1] <= m THEN s[1] ELSE m

Range(s) == {s[k] : k \in 1..Len(s)}

\* ------------------------------------------- documents (input of the parser)
DigitChars == <<"0", "1", "2", "3", "4", "5", "6", "7", "8", "9">>

\* str(n) for n >= 0: the decimal digits the consensus author writes
RECURSIVE Digits(_)
Digits(n) == IF n < 10 THEN <<DigitChars[n + 1]>>
             ELSE Append(Digits(n \div 10), DigitChars[(n % 10) + 1])

Mandatory == {"r", "s", "v", "w", "p"}
Lacks == Mandatory \cup {"none"}

\* a block as its author meant it: optional a and pr lines, at most one
\* mandatory line left out, and the bandwidth (<<>>: "w Bandwidth=" with no
\* integer after it)
BlockSpecs(bws) ==
  {b \in [a : BOOLEAN, pr : BOOLEAN, lacks : Lacks, bw : bws] :
      b.lacks # "none" => b.bw = <<MaxBw>>}

Line(t, k, x) == [tok |-> t, blk |-> k, text |-> x]

\* the lines of block number k, in the order of the consensus format
BlockLines(b, k) ==
  LET opt(present, l) == IF present THEN <<l>> ELSE <<>>
      wtext == IF b.bw = <<>> THEN <<>> ELSE Digits(b.bw[1])
  IN   opt(b.lacks # "r", Line("r", k, <<>>))
    \o opt(b.a, Line("a", k, <<>>))
    \o opt(b.lacks # "s", Line("s", k, <<>>))
    \o opt(b.lacks # "v", Line("v", k, <<>>))
    \o opt(b.pr, Line("pr", k, <<>>))
    \o opt(b.lacks # "w", Line("w", k, wtext))
    \o opt(b.lacks # "p", Line("p", k, <<>>))

RECURSIVE DocLines(_, _)
DocLines(bs, k) ==
  IF k > Len(bs) THEN <<>> ELSE BlockLines(bs[k], k) \o DocLines(bs, k + 1)

\* a document: the blocks as meant, and the text (lines) the parser reads
Document(bs) == [blocks |-> bs, lines |-> DocLines(bs, 1)]

\* ------------------------------------------------------------ relay_pattern
IsDigit(c) == c \in Range(DigitChars)

\* the variant \d? : at most one digit
digit_prefix_one(x) == IF x # <<>> /\ IsDigit(Head(x)) THEN <<Head(x)>> ELSE <<>>

\* \d* : the longest prefix of digits (possibly empty)
RECURSIVE digit_prefix(_)
digit_prefix(x) ==
  IF x # <<>> /\ IsDigit(Head(x)) THEN <<Head(x)>> \o digit_prefix(Tail(x)) ELSE <<>>

line_is(lines, j, t) == j >= 1 /\ j <= Len(lines) /\ lines[j].tok = t

\* the variant in which the v group is optional as well
match_tail_optional_v(lines, j) ==
  LET k == IF line_is(lines, j + 1, "v") THEN j + 2 ELSE j + 1
  IN IF ~line_is(lines, j, "s") THEN 0
     ELSE IF line_is(lines, k, "pr")
                /\ line_is(lines, k + 1, "w") /\ line_is(lines, k + 2, "p") THEN k + 2
     ELSE IF line_is(lines, k, "w") /\ line_is(lines, k + 1, "p") THEN k + 1
     ELSE 0

\* the tail of the pattern from the s group on: s, v, (pr)?, w, p on
\* consecutive lines starting at line j; the result is the line of the p
\* group, or 0 when the tail does not match there
match_tail(lines, j) ==
  IF ~(line_is(lines, j, "s") /\ line_is(lines, j + 1, "v")) THEN 0
  ELSE IF line_is(lines, j + 2, "pr")
             /\ line_is(lines, j + 3, "w") /\ line_is(lines, j + 4, "p") THEN j + 4
  ELSE IF line_is(lines, j + 2, "w") /\ line_is(lines, j + 3, "p") THEN j + 3
  ELSE 0

\* relay_pattern tried at line i: the optional a group is greedy, the
\* match without it is the alternative the engine backtracks to
relay_pattern_match(lines, i) ==
  LET withA == IF line_is(lines, i + 1, "a") THEN match_tail(lines, i + 2) ELSE 0
      noA   == match_tail(lines, i + 1)
      last  == IF withA # 0 THEN withA ELSE noA
      sAt   == IF withA # 0 THEN i + 2 ELSE i + 1
  IN IF ~line_is(lines, i, "r") \/ last = 0 THEN [ok |-> FALSE]
     ELSE [ok |-> TRUE, last |-> last,
           groupdict |->
             [nickname  |-> lines[i].blk,
              ip        |-> lines[i].blk,
              ipv6      |-> IF withA # 0 THEN <<lines[i + 1].blk>> ELSE <<>>,
              flags     |-> lines[sAt].blk,
              version   |-> lines[sAt + 1].blk,
              bandwidth |-> digit_prefix(lines[last - 1].text),
              weight    |-> lines[last - 1].blk,
              ports     |-> lines[last].blk]]

\* relay_pattern.finditer: leftmost non-overlapping matches, left to right
RECURSIVE finditer(_, _)
finditer(lines, i) ==
  IF i > Len(lines) THEN <<>>
  ELSE LET m == relay_pattern_match(lines, i)
       IN IF m.ok THEN <<m.groupdict>> \o finditer(lines, m.last + 1)
          ELSE finditer(lines, i + 1)

get_details_from_consensus(lines) == finditer(lines, 1)

\* int(s) of a captured bandwidth: defined on a non-empty digit string only
int_ok(s) == s # <<>> /\ \A k \in 1..Len(s) : IsDigit(s[k])

DigitVal(c) == CHOOSE d \in 0..9 : DigitChars[d + 1] = c

RECURSIVE int(_)
int(s) == IF Len(s) = 1 THEN DigitVal(s[1])
          ELSE 10 * int(SubSeq(s, 1, Len(s) - 1)) + DigitVal(s[Len(s)])

\* ------------------------------------------------- specification: the parser
ParseBws == {<<>>, <<MaxBw>>}

Idle == [ok |-> FALSE, err |-> "none"]

InitParse ==
  /\ \E n \in 1..MaxBlocks : \E bs \in [1..n -> BlockSpecs(ParseBws)] : doc = Document(bs)
  /\ relays = <<>>
  /\ pc = "parse"
  /\ eps = 0 /\ weight = FALSE /\ points = <<>> /\ ret = Idle /\ ret2 = Idle
  /\ reader = "unopened" /\ opens = 0 /\ idx = 0 /\ diag = <<>> /\ geo = <<>>
  /\ err = "none" /\ clusters = <<>> /\ vmax = 0 /\ vmin = 0 /\ saved = FALSE

ParseCall ==
  /\ pc = "parse"
  /\ relays' = get_details_from_consensus(doc.lines)
  /\ pc' = "parsed"
  /\ UNCHANGED <<doc, eps, weight, points, ret, ret2, reader, opens, idx, diag,
                 geo, err, clusters, vmax, vmin, saved>>

NextParse == ParseCall

SpecParse == InitParse /\ [][NextParse]_vars

\* ------------------------------------- DBSCAN(eps=eps, min_samples=1).fit
\* a point is <<lon, lat, bandwidth>>; only columns 0 and 1 are clustered
dist2(p, q) == (p[1] - q[1]) * (p[1] - q[1]) + (p[2] - q[2]) * (p[2] - q[2])

\* distance <= eps, eps in half grid units
within_eps(p, q, e) == 4 * dist2(p, q) <= e * e

neighborhood(X, e, i) == {j \in 1..Len(X) : within_eps(X[i], X[j], e)}

MinSamples == 1

\* the variant that asks for more than min_samples points
is_core_strict(X, e, i) == Cardinality(neighborhood(X, e, i)) > MinSamples

is_core(X, e, i) == Cardinality(neighborhood(X, e, i)) >= MinSamples

Noise == 0 - 1

\* the neighbours of i that have no label yet, in index order
unlabelled_neighbours(X, e, labels, i) ==
  LET free(v) == v \in neighborhood(X, e, i) /\ labels[v] = Noise
  IN SelectSeq([k \in 1..Len(X) |-> k], free)

\* the variant that labels the seed and its direct neighbours and stops
RECURSIVE dbscan_expand_shallow(_, _, _, _, _)
dbscan_expand_shallow(X, e, labels, stack, label_num) ==
  IF stack = <<>> THEN labels
  ELSE LET i == stack[Len(stack)]
       IN [v \in 1..Len(X) |->
             IF labels[v] = Noise /\ (v = i \/ v \in neighborhood(X, e, i))
             THEN label_num ELSE labels[v]]

\* the depth-first expansion of one cluster from the points on the stack
RECURSIVE dbscan_expand(_, _, _, _, _)
dbscan_expand(X, e, labels, stack, label_num) ==
  IF stack = <<>> THEN labels
  ELSE LET i == stack[Len(stack)]
           rest == SubSeq(stack, 1, Len(stack) - 1)
       IN IF labels[i] # Noise THEN dbscan_expand(X, e, labels, rest, label_num)
          ELSE LET l2 == [labels EXCEPT ![i] = label_num]
                   push == IF is_core(X, e, i)
                           THEN unlabelled_neighbours(X, e, l2, i) ELSE <<>>
               IN dbscan_expand(X, e, l2, rest \o push, label_num)

\* the outer loop: every unlabelled core point seeds the next cluster
RECURSIVE dbscan_inner(_, _, _, _, _)
dbscan_inner(X, e, labels, i, label_num) ==
  IF i > Len(X) THEN labels
  ELSE IF labels[i] # Noise \/ ~is_core(X, e, i)
       THEN dbscan_inner(X, e, labels, i + 1, label_num)
  ELSE dbscan_inner(X, e, dbscan_expand(X, e, labels, <<i>>, label_num),
                    i + 1, label_num + 1)

dbscan_labels(X, e) == dbscan_inner(X, e, [k \in 1..Len(X) |-> Noise], 1, 0)

\* ------------------------------------------------------ cluster_coordinates
\* coordinates[labels == label]
cluster_mask(coordinates, labels, label) ==
  LET in(k) == labels[k] = label
      ix == SelectSeq([k \in 1..Len(coordinates) |-> k], in)
  IN [k \in 1..Len(ix) |-> coordinates[ix[k]]]

\* np.mean(cluster_points[:, [0, 1]], axis=0), kept as sums over the size
cluster_center(cluster_points) ==
  <<SumSeq([k \in 1..Len(cluster_points) |-> cluster_points[k][1]]),
    SumSeq([k \in 1..Len(cluster_points) |-> cluster_points[k][2]]),
    Len(cluster_points)>>

\* the variant that counts members in both modes
cluster_count_len(cluster_points, w) == Len(cluster_points)

cluster_count(cluster_points, w) ==
  IF w THEN SumSeq([k \in 1..Len(cluster_points) |-> cluster_points[k][3]])
  ELSE Len(cluster_points)

\* the variant that returns the minimum first
cluster_return_swapped(cluster_centers, cluster_counts) ==
  << [k \in 1..Len(cluster_counts) |->
        [center |-> cluster_centers[k], count |-> cluster_counts[k]]],
     MinSeq(cluster_counts), MaxSeq(cluster_counts) >>

\* r = list(zip(centers, counts)); return r, max(counts), min(counts)
cluster_return(cluster_centers, cluster_counts) ==
  << [k \in 1..Len(cluster_counts) |->
        [center |-> cluster_centers[k], count |-> cluster_counts[k]]],
     MaxSeq(cluster_counts), MinSeq(cluster_counts) >>

Raised(e) == [ok |-> FALSE, err |-> e]

\* lines 31-48 on a two-dimensional (non-empty) array
cluster_fit(coordinates, e, w) ==
  IF e <= 0 THEN Raised("ValueError: eps")
  ELSE
    LET labels == dbscan_labels(coordinates, e)
        unique_labels == Range(labels)
        keep(l) == l \in unique_labels /\ l # Noise
        kept == SelectSeq([k \in 1..Len(coordinates) |-> k - 1], keep)
        cluster_centers ==
          [k \in 1..Len(kept) |-> cluster_center(cluster_mask(coordinates, labels, kept[k]))]
        cluster_counts ==
          [k \in 1..Len(kept) |-> cluster_count(cluster_mask(coordinates, labels, kept[k]), w)]
    IN IF cluster_counts = <<>> THEN Raised("ValueError: max of empty")
       ELSE [ok |-> TRUE, err |-> "none", labels |-> labels,
             value |-> cluster_return(cluster_centers, cluster_counts)]

\* the variant that accepts an empty array and reports no cluster
cluster_coordinates_lenient(coordinates, e, w) ==
  IF Len(coordinates) = 0
  THEN [ok |-> TRUE, err |-> "none", labels |-> <<>>, value |-> << <<>>, 0, 0 >>]
  ELSE cluster_fit(coordinates, e, w)

\* np.array([]) has one dimension: coordinates[:, [0, 1]] raises IndexError
cluster_coordinates(coordinates, e, w) ==
  IF Len(coordinates) = 0 THEN Raised("IndexError")
  ELSE cluster_fit(coordinates, e, w)

\* --------------------------------------------- specification: the clusterer
EpsHalves == {0, 2, 3}

\* longitudes, latitudes and bandwidths of the points the clusterer is
\* called on
Cols == {0, 1, 2}
Rows == {0, 1}
Weights == {1, 2}

PointValues == Cols \X Rows \X Weights

\* a fixed order on points, to put a point sequence in canonical order
PointLess(p, q) ==
  \/ p[1] < q[1]
  \/ p[1] = q[1] /\ p[2] < q[2]
  \/ p[1] = q[1] /\ p[2] = q[2] /\ p[3] < q[3]

Canonical(X) == SortSeq(X, PointLess)

InitCluster ==
  /\ \E n \in 0..MaxPoints : points \in [1..n -> PointValues]
  /\ eps \in EpsHalves
  /\ weight \in BOOLEAN
  /\ pc = "call"
  /\ ret = Idle /\ ret2 = Idle
  /\ doc = [blocks |-> <<>>, lines |-> <<>>] /\ relays = <<>>
  /\ reader = "unopened" /\ opens = 0 /\ idx = 0 /\ diag = <<>> /\ geo = <<>>
  /\ err = "none" /\ clusters = <<>> /\ vmax = 0 /\ vmin = 0 /\ saved = FALSE

\* cluster_coordinates(points, eps, weight) on the points as supplied
ClusterCall ==
  /\ pc = "call"
  /\ ret' = cluster_coordinates(points, eps, weight)
  /\ pc' = "called"
  /\ UNCHANGED <<doc, relays, eps, weight, points, ret2, reader, opens, idx, diag,
                 geo, err, clusters, vmax, vmin, saved>>

\* the same call on the same points supplied in canonical order
ClusterReordered ==
  /\ pc = "called"
  /\ ret2' = cluster_coordinates(Canonical(points), eps, weight)
  /\ pc' = "compared"
  /\ UNCHANGED <<doc, relays, eps, weight, points, ret, reader, opens, idx, diag,
                 geo, err, clusters, vmax, vmin, saved>>

NextCluster == ClusterCall \/ ClusterReordered

SpecCluster == InitCluster /\ [][NextCluster]_vars

\* ------------------------------------------------------------------- main
\* the blocks of the consensus files main is run on
MainBlocks ==
  {b \in BlockSpecs({<<>>, <<0>>, <<MaxBw>>}) :
      ~b.a /\ ~b.pr /\ b.lacks \in {"none", "v"}}

\* the coordinates the geocoder database holds
Lons == 0..GridX
Lats == {0}

Init ==
  /\ \E n \in 0..MaxRelays : \E bs \in [1..n -> MainBlocks] : doc = Document(bs)
  /\ eps \in EpsHalves
  /\ weight \in BOOLEAN
  /\ pc = "start"
  /\ relays = <<>> /\ points = <<>> /\ ret = Idle /\ ret2 = Idle
  /\ reader = "unopened" /\ opens = 0 /\ idx = 0 /\ diag = <<>> /\ geo = <<>>
  /\ err = "none" /\ clusters = <<>> /\ vmax = 0 /\ vmin = 0 /\ saved = FALSE

\* relays = get_details_from_consensus(consensus_file)
ReadConsensus ==
  /\ pc = "start"
  /\ relays' = get_details_from_consensus(doc.lines)
  /\ pc' = "open"
  /\ UNCHANGED <<doc, eps, weight, points, ret, ret2, reader, opens, idx, diag,
                 geo, err, clusters, vmax, vmin, saved>>

\* reader = geoip2.database.Reader(geoip_data_file)
OpenReader ==
  /\ pc = "open"
  /\ reader' = "open"
  /\ opens' = opens + 1
  /\ idx' = 1
  /\ pc' = "geocode"
  /\ UNCHANGED <<doc, relays, eps, weight, points, ret, ret2, diag, geo, err,
                 clusters, vmax, vmin, saved>>

InLoop == pc = "geocode" /\ idx <= Len(relays)

\* geo_ip returns a location: the point is appended with int(bandwidth),
\* and int('') raises ValueError
GeoLocated ==
  /\ InLoop
  /\ \E lon \in Lons, lat \in Lats :
       /\ geo' = Append(geo, "located")
       /\ IF int_ok(relays[idx].bandwidth)
          THEN /\ points' = Append(points, <<lon, lat, int(relays[idx].bandwidth)>>)
               /\ idx' = idx + 1
               /\ UNCHANGED <<pc, err>>
          ELSE /\ pc' = "error"
               /\ err' = "ValueError: int"
               /\ UNCHANGED <<points, idx>>
  /\ UNCHANGED <<doc, relays, eps, weight, ret, ret2, reader, opens, diag,
                 clusters, vmax, vmin, saved>>

\* the response has no longitude or no latitude: print and skip
GeoNoLocation ==
  /\ InLoop
  /\ geo' = Append(geo, "no location")
  /\ diag' = Append(diag, relays[idx].ip)
  /\ idx' = idx + 1
  /\ UNCHANGED <<doc, relays, pc, eps, weight, points, ret, ret2, reader, opens,
                 err, clusters, vmax, vmin, saved>>

\* reader.city raises AddressNotFoundError: nothing in main catches it
GeoAddressNotFound ==
  /\ InLoop
  /\ geo' = Append(geo, "address not found")
  /\ pc' = "error"
  /\ err' = "AddressNotFoundError"
  /\ UNCHANGED <<doc, relays, eps, weight, points, ret, ret2, reader, opens, idx,
                 diag, clusters, vmax, vmin, saved>>

\* reader.city raises ValueError on a string that is no IP address
GeoInvalidIp ==
  /\ InLoop
  /\ geo' = Append(geo, "invalid ip")
  /\ pc' = "error"
  /\ err' = "ValueError: ip"
  /\ UNCHANGED <<doc, relays, eps, weight, points, ret, ret2, reader, opens, idx,
                 diag, clusters, vmax, vmin, saved>>

\* points, vmax, vmin = cluster_coordinates(points, eps=eps, weight=weight)
Cluster ==
  /\ pc = "geocode" /\ idx > Len(relays)
  /\ ret' = cluster_coordinates(points, eps, weight)
  /\ IF ret'.ok
     THEN /\ clusters' = ret'.value[1]
          /\ vmax' = ret'.value[2]
          /\ vmin' = ret'.value[3]
          /\ pc' = "render"
          /\ UNCHANGED err
     ELSE /\ pc' = "error"
          /\ err' = ret'.err
          /\ UNCHANGED <<clusters, vmax, vmin>>
  /\ UNCHANGED <<doc, relays, eps, weight, points, ret2, reader, opens, idx, diag,
                 geo, saved>>

\* the figure, the norm and one marker per cluster: log(count/div, 10)
\* raises ValueError on a count of 0
Render ==
  /\ pc = "render"
  /\ IF \E k \in 1..Len(clusters) : clusters[k].count = 0
     THEN pc' = "error" /\ err' = "ValueError: math domain"
     ELSE pc' = "save" /\ UNCHANGED err
  /\ UNCHANGED <<doc, relays, eps, weight, points, ret, ret2, reader, opens, idx,
                 diag, geo, clusters, vmax, vmin, saved>>

\* plt.savefig('map.png', dpi=300)
SaveFig ==
  /\ pc = "save"
  /\ saved' = TRUE
  /\ pc' = "done"
  /\ UNCHANGED <<doc, relays, eps, weight, points, ret, ret2, reader, opens, idx,
                 diag, geo, err, clusters, vmax, vmin>>

Next ==
  \/ ReadConsensus
  \/ OpenReader
  \/ GeoLocated
  \/ GeoNoLocation
  \/ GeoAddressNotFound
  \/ GeoInvalidIp
  \/ Cluster
  \/ Render
  \/ SaveFig

Spec == Init /\ [][Next]_vars

\* =================================================================== claims
\* ---- definitions used by the properties of the clusterer
Called == pc \in {"called", "compared"}

Near(p, q, e) == 4 * ((p[1] - q[1]) ^ 2 + (p[2] - q[2]) ^ 2) <= e ^ 2

\* the points linked to a point of S by a chain of steps of length <= eps
RECURSIVE ChainClosure(_, _, _)
ChainClosure(X, e, S) ==
  LET T == S \cup {j \in 1..Len(X) : \E i \in S : Near(X[i], X[j], e)}
  IN IF T = S THEN S ELSE ChainClosure(X, e, T)

Linked(X, e, i, j) == j \in ChainClosure(X, e, {i})

Isolated(X, e, i) == \A j \in 1..Len(X) : j # i => ~Near(X[i], X[j], e)

LabelMates(res, i) == {j \in 1..Len(res.labels) : res.labels[j] = res.labels[i]}

EveryPointInOneChainCluster ==
  /\ ret.ok
  /\ \A i \in 1..Len(points) : ret.labels[i] \in 0..(Len(ret.value[1]) - 1)
  /\ \A l \in 0..(Len(ret.value[1]) - 1) :
       /\ {i \in 1..Len(points) : ret.labels[i] = l} # {}
       /\ ret.value[1][l + 1].center[3] =
            Cardinality({i \in 1..Len(points) : ret.labels[i] = l})
  /\ \A i, j \in 1..Len(points) :
       (ret.labels[i] = ret.labels[j]) <=> Linked(points, eps, i, j)
  /\ \A i \in 1..Len(points) :
       Isolated(points, eps, i) =>
         /\ LabelMates(ret, i) = {i}
         /\ ret.value[1][ret.labels[i] + 1].count = (IF weight THEN points[i][3] ELSE 1)

\* C1 (as amended): for every non-empty point sequence and every eps > 0,
\* cluster_coordinates puts every point in exactly one returned cluster, two
\* points share a cluster iff a chain of steps of length <= eps links them,
\* and a point with no other point within eps is a singleton cluster.
C1_ChainClustersPositiveEps ==
  (Called /\ Len(points) > 0 /\ eps > 0) => EveryPointInOneChainCluster

\* C1 (as stated): the same for every threshold eps.
C1_ChainClustersEveryEps ==
  (Called /\ Len(points) > 0) => EveryPointInOneChainCluster

\* two points of one cluster that are farther than eps apart (a chain)
C1_Witness ==
  /\ pc = "called" /\ ret.ok /\ eps > 0
  /\ \E i, j \in 1..Len(points) :
       ret.labels[i] = ret.labels[j] /\ ~Near(points[i], points[j], eps)

CountsOf(r) == [k \in 1..Len(r) |-> r[k].count]

\* C2: the aggregates of the returned clusters add up to the number of input
\* points in count mode and to the sum of the input weights in weight mode.
C2_AggregatesAddUp ==
  (Called /\ Len(points) > 0 /\ eps > 0) =>
     /\ ret.ok
     /\ SumSeq(CountsOf(ret.value[1])) =
          (IF weight THEN SumSeq([k \in 1..Len(points) |-> points[k][3]])
           ELSE Len(points))

C2_Witness ==
  /\ pc = "called" /\ ret.ok /\ weight
  /\ Len(ret.value[1]) = 2
  /\ \E k \in 1..2 : ret.value[1][k].center[3] = 2
  /\ \E i, j \in 1..Len(points) : points[i][3] # points[j][3]

\* ---- the partition of a result, as sets of member points
Members(X, res, l) == {X[k] : k \in {j \in 1..Len(X) : res.labels[j] = l}}

Partition(X, res) == {Members(X, res, l) : l \in Range(res.labels) \ {Noise}}

Aggregates(X, res) ==
  {<<Members(X, res, l), res.value[1][l + 1].count>> :
      l \in (Range(res.labels) \ {Noise}) \cap (0..(Len(res.value[1]) - 1))}

\* C9: the points as supplied and the same points in canonical order give
\* the same partition into sets of member points and the same aggregate
\* for each cluster.
C9_OrderIndependent ==
  pc = "compared" =>
     /\ ret.ok = ret2.ok
     /\ ret.ok =>
          /\ Partition(points, ret) = Partition(Canonical(points), ret2)
          /\ Aggregates(points, ret) = Aggregates(Canonical(points), ret2)
          /\ Cardinality(Aggregates(points, ret)) = Len(ret.value[1])

C9_Witness ==
  /\ pc = "compared" /\ ret.ok /\ ret2.ok
  /\ Canonical(points) # points
  /\ ret.labels # ret2.labels
  /\ Cardinality(Partition(points, ret)) = 2

\* ---- the parser
Parsed == pc = "parsed"

WellFormedIds(bs) ==
  LET wf(k) == bs[k].lacks = "none"
  IN SelectSeq([k \in 1..Len(bs) |-> k], wf)

OwnFields(rec, k) ==
  /\ rec.nickname = k /\ rec.ip = k /\ rec.flags = k /\ rec.version = k
  /\ rec.weight = k /\ rec.ports = k
  /\ rec.ipv6 \in {<<>>, <<k>>}

\* C5: a block that lacks one mandatory line gives no record, and the
\* records are exactly those of the blocks that lack none, each made of the
\* lines of its own block.
C5_MalformedBlockSkipped ==
  Parsed =>
     /\ Len(relays) = Len(WellFormedIds(doc.blocks))
     /\ \A n \in 1..Len(relays) : OwnFields(relays[n], WellFormedIds(doc.blocks)[n])

C5_Witness ==
  /\ Parsed
  /\ Len(doc.blocks) = 3
  /\ doc.blocks[1].lacks = "none" /\ doc.blocks[2].lacks = "p"
  /\ doc.blocks[3].lacks = "none"
  /\ Len(relays) = 2

AllWellFormed(bs) == \A k \in 1..Len(bs) : bs[k].lacks = "none" /\ bs[k].bw # <<>>

\* C6: a document of well-formed blocks, each with or without the a line
\* and the pr line, gives one record per block, in document order, with the
\* mandatory fields set and a bandwidth whose integer is the block's.
C6_OneRecordPerBlock ==
  (Parsed /\ AllWellFormed(doc.blocks)) =>
     /\ Len(relays) = Len(doc.blocks)
     /\ \A k \in 1..Len(relays) :
          /\ OwnFields(relays[k], k)
          /\ (relays[k].ipv6 = <<k>>) <=> doc.blocks[k].a
          /\ int_ok(relays[k].bandwidth)
          /\ int(relays[k].bandwidth) = doc.blocks[k].bw[1]

C6_Witness ==
  /\ Parsed /\ AllWellFormed(doc.blocks)
  /\ Len(doc.blocks) = 3 /\ Len(relays) = 3
  /\ doc.blocks[1].a /\ ~doc.blocks[1].pr
  /\ ~doc.blocks[2].a /\ doc.blocks[2].pr
  /\ ~doc.blocks[3].a /\ ~doc.blocks[3].pr

\* ---- main
Aborted == pc = "error"

\* C3: a lookup that fails (no location, invalid IP, adapter error) prints
\* the IP, adds no point and does not abort the run.
C3_GeocodeFailureNotFatal ==
  /\ ~(Aborted /\ err \in {"AddressNotFoundError", "ValueError: ip"})
  /\ \A k \in 1..Len(geo) :
       geo[k] # "located" => relays[k].ip \in Range(diag)
  /\ Len(points) <= Cardinality({k \in 1..Len(geo) : geo[k] = "located"})

Drawing == pc \in {"render", "save", "done"}

\* C4: with no point left after parsing and geocoding the run ends in an
\* error before rendering and map.png is not written.
C4_NoPointsIsFatal ==
  Len(points) = 0 =>
     /\ ~saved /\ ~Drawing /\ clusters = <<>>
     /\ ret # Idle => (Aborted /\ ~ret.ok)

C4_Witness ==
  /\ Aborted /\ err = "IndexError"
  /\ Len(relays) = 2 /\ geo = <<"no location", "no location">>
  /\ ~saved

\* C7: every record carries a bandwidth that int() accepts (a w line with
\* no integer gives no record), so int(relay['bandwidth']) never raises.
C7_BandwidthIsInteger ==
  /\ \A k \in 1..Len(relays) : int_ok(relays[k].bandwidth)
  /\ ~(Aborted /\ err = "ValueError: int")

\* C8: vmax is the largest and vmin the smallest aggregate of the clusters
\* handed to rendering, each is the aggregate of one of them, and every
\* aggregate lies between vmin and vmax.
C8_MinMaxBound ==
  Drawing =>
     /\ Len(clusters) > 0
     /\ clusters = ret.value[1]
     /\ \A k \in 1..Len(clusters) : vmin <= clusters[k].count /\ clusters[k].count <= vmax
     /\ \E k \in 1..Len(clusters) : clusters[k].count = vmax
     /\ \E k \in 1..Len(clusters) : clusters[k].count = vmin

C8_Witness ==
  /\ pc = "render" /\ Len(clusters) = 2 /\ vmin < vmax /\ weight

Finished == pc \in {"done", "error"}

\* C10: the reader is opened once, and a run that opened it ends with the
\* reader closed.
C10_ReaderReleased ==
  /\ opens <= 1
  /\ (Finished /\ opens > 0) => reader = "closed"

====
